---- MODULE Spec2Model ----
(***************************************************************************)
(* Incident simulation, recovery and snapshot versioning of the MLOps      *)
(* harness: IncidentGenerator, RecoveryManager, VersionController and      *)
(* DVCManager, over a small file system, a git repository (HEAD and tags   *)
(* of the committed .dvc pointer files) and the .snapshots metadata; and,  *)
(* each under a specification of its own, RandomForestModel with its       *)
(* ModelTrainer (SpecModels) and ConfigManager.get (SpecConfig).           *)
(*                                                                         *)
(* A Python dict is a record that has every key the code may set; a key    *)
(* that is not in the dict holds MISSING.  A file is a path of fs; its     *)
(* value is ABSENT, DIRECTORY or a content.  The content of a .dvc pointer *)
(* file is the content it points to (DVC keeps every content it has added  *)
(* in its cache, so a pointer can always be checked out).  The external    *)
(* commands can be run (the constructors have run dvc): each ends "ok" or  *)
(* "fail" (non-zero exit: CalledProcessError under check=True).  Each call *)
(* appends to trace the commands it runs, "failed <command>" where the     *)
(* code logs the command's failure, and the log lines that tell which      *)
(* strategy it is trying.                                                  *)
(***************************************************************************)
EXTENDS Integers, Sequences, FiniteSets, TLC

\* ------------------------------------------------------------------ bounds
MaxVersions == 2
MaxCalls == 3
MaxVersioningCalls == 4
MaxFaults == 1

\* ------------------------------------------------------------- file system
MISSING == "<missing>"
\* what a path holds: nothing, a directory, or a file's content. The content
\* the pipeline wrote is ORIGINAL; each corruption of a data file writes a
\* content that is in no file and in no committed pointer file (Fresh).
ABSENT == 0
DIRECTORY == 1
MARKER_TEXT == 2
CORRUPTED_DATA == 3
ORIGINAL == 4
\* the content of a file of size 0; no call of the model writes it
EMPTY == -1

DataFile == "data/raw/customer_data.csv"
ModelFile == "models/trained/rf/model.joblib"
TrackedFiles == {DataFile, ModelFile}
FailurePoints == {"preprocessing", "test"}

BackupPath(p) == p \o ".backup"
DvcFile(p) == p \o ".dvc"
MarkerPath(failure_point) ==
    ".incident_markers/pipeline_failure_" \o failure_point \o ".marker"

Paths ==
    {"."} \cup TrackedFiles
          \cup {BackupPath(p) : p \in TrackedFiles}
          \cup {DvcFile(p) : p \in TrackedFiles}
          \cup {MarkerPath(fp) : fp \in FailurePoints}

\* pathlib.Path(s): the empty string is the current directory
PathOf(s) == IF s = "" THEN "." ELSE s

\* dict.get(key, default)
Get(value, default) == IF value = MISSING THEN default ELSE value

Exists(files, p) == files[p] # ABSENT

\* shutil.copy2(src, dst): the new file system, or the exception raised
copy2(files, src, dst) ==
    IF files[src] = ABSENT THEN [fs |-> files, exc |-> "FileNotFoundError"]
    ELSE IF files[src] = DIRECTORY THEN [fs |-> files, exc |-> "IsADirectoryError"]
    ELSE [fs |-> [files EXCEPT ![dst] = files[src]], exc |-> "none"]

\* Path.unlink()
unlink(files, p) ==
    IF files[p] = ABSENT THEN [fs |-> files, exc |-> "FileNotFoundError"]
    ELSE IF files[p] = DIRECTORY THEN [fs |-> files, exc |-> "IsADirectoryError"]
    ELSE [fs |-> [files EXCEPT ![p] = ABSENT], exc |-> "none"]

\* --------------------------------------------------------- external commands
Outcomes == {"ok", "fail"}

\* the outcomes of the commands of one call, and how many of them are faults
Faults(env) == Cardinality({c \in DOMAIN env : env[c] # "ok"})
RECURSIVE Envs(_, _)
Envs(commands, budget) ==
    IF budget <= 0 THEN {[c \in commands |-> "ok"]}
    ELSE LET fewer == Envs(commands, budget - 1)
         IN  fewer \cup {[env EXCEPT ![c] = o] :
                            env \in fewer, c \in commands, o \in Outcomes}

\* subprocess.run(..., check=True): the exception it raises, if any
RunChecked(outcome) ==
    IF outcome = "ok" THEN "none" ELSE "CalledProcessError"

\* subprocess.run(..., check=False)
RunUnchecked(outcome) == "none"

\* ------------------------------------------------------- IncidentGenerator
IncidentTypes == {"data_corruption", "model_degradation", "pipeline_failure", "none"}
CorruptionTypes == {"random", "missing", "duplicate"}
DegradationTypes == {"delete", "corrupt"}

NewIncident(type, subtype, status) ==
    [type |-> type, subtype |-> subtype, status |-> status,
     affected_file |-> MISSING, backup_path |-> MISSING,
     marker_file |-> MISSING, error |-> MISSING]

NoIncident == NewIncident(MISSING, MISSING, MISSING)

\* simulate_data_corruption(file_path, corruption_type); corrupted is the
\* content df.to_csv writes after the random corruption
simulate_data_corruption(files, file_path, corruption_type, corrupted) ==
    LET incident == [NewIncident("data_corruption", corruption_type, "created")
                        EXCEPT !.affected_file = file_path]
        backup_path == BackupPath(file_path)
        cp == copy2(files, file_path, backup_path)
    IN  IF cp.exc # "none"
        THEN [fs |-> cp.fs, logged |-> FALSE,
              incident |-> [incident EXCEPT !.status = "failed", !.error = cp.exc]]
        ELSE [fs |-> [cp.fs EXCEPT ![file_path] = corrupted], logged |-> TRUE,
              incident |-> [incident EXCEPT !.backup_path = backup_path,
                                            !.status = "active"]]

\* simulate_model_degradation(model_path, degradation_type)
simulate_model_degradation(files, model_path, degradation_type) ==
    LET incident == [NewIncident("model_degradation", degradation_type, "created")
                        EXCEPT !.affected_file = model_path]
        backup_path == BackupPath(model_path)
        cp == copy2(files, model_path, backup_path)
        degraded ==
            CASE degradation_type = "delete" -> unlink(cp.fs, model_path).fs
              [] degradation_type = "corrupt" ->
                    [cp.fs EXCEPT ![model_path] = CORRUPTED_DATA]
              [] OTHER -> cp.fs
    IN  IF ~Exists(files, model_path)
        THEN [fs |-> files, logged |-> FALSE,
              incident |-> [incident EXCEPT !.status = "failed",
                                            !.error = "FileNotFoundError"]]
        ELSE IF cp.exc # "none"
        THEN [fs |-> cp.fs, logged |-> FALSE,
              incident |-> [incident EXCEPT !.status = "failed", !.error = cp.exc]]
        ELSE [fs |-> degraded, logged |-> TRUE,
              incident |-> [incident EXCEPT !.backup_path = backup_path,
                                            !.status = "active"]]

\* simulate_pipeline_failure(failure_point)
simulate_pipeline_failure(files, failure_point) ==
    LET marker_file == MarkerPath(failure_point)
    IN  [fs |-> [files EXCEPT ![marker_file] = MARKER_TEXT], logged |-> TRUE,
         incident |-> [NewIncident("pipeline_failure", failure_point, "active")
                          EXCEPT !.marker_file = marker_file]]

\* simulate_random_incident(): choice is the pair random.choice picks
RandomChoices ==
    {<<"data_corruption", "random">>, <<"data_corruption", "missing">>,
     <<"model_degradation", "delete">>, <<"pipeline_failure", "preprocessing">>}

simulate_random_incident(files, choice, corrupted) ==
    LET no_target == [fs |-> files, logged |-> FALSE,
                      incident |-> NewIncident("none", MISSING, "no_target_found")]
    IN  CASE choice[1] = "data_corruption" ->
                IF Exists(files, DataFile)
                THEN simulate_data_corruption(files, DataFile, choice[2], corrupted)
                ELSE no_target
          [] choice[1] = "model_degradation" ->
                IF Exists(files, ModelFile)
                THEN simulate_model_degradation(files, ModelFile, choice[2])
                ELSE no_target
          [] OTHER -> simulate_pipeline_failure(files, choice[2])

\* -------------------------------------------------------------- DVCManager
\* The state the operations act on: w.fs the files, w.head the .dvc pointer
\* files committed at git HEAD, w.tags the pointer files committed at each tag
\* that exists, w.snapshots the content of each file .snapshots/<version>.json
\* that exists.
Pointers(files) == [f \in TrackedFiles |-> files[DvcFile(f)]]

\* writes the committed pointer files into the workspace
WithPointers(files, pointers) ==
    [p \in Paths |->
        IF \E f \in TrackedFiles : p = DvcFile(f)
        THEN pointers[CHOOSE f \in TrackedFiles : p = DvcFile(f)]
        ELSE files[p]]

\* what `dvc checkout` of the pointer files of `targets` leaves in the workspace
CheckedOut(files, targets) ==
    [p \in Paths |->
        IF p \in targets /\ Exists(files, DvcFile(p)) THEN files[DvcFile(p)]
        ELSE files[p]]

\* DVCManager.add(path)
dvc_add(files, path, outcome) ==
    IF RunChecked(outcome) = "none"
    THEN [fs |-> [files EXCEPT ![DvcFile(path)] = files[path]],
          ret |-> TRUE, exc |-> "none"]
    ELSE [fs |-> files, ret |-> FALSE, exc |-> "none"]

\* DVCManager.push()
dvc_push(outcome) ==
    [ret |-> RunChecked(outcome) = "none", exc |-> "none"]

\* DVCManager.pull(): fetches what the workspace's pointer files name and
\* checks it out
dvc_pull(files, outcome) ==
    IF RunChecked(outcome) = "none"
    THEN [fs |-> CheckedOut(files, TrackedFiles), ret |-> TRUE, exc |-> "none"]
    ELSE [fs |-> files, ret |-> FALSE, exc |-> "none"]

\* DVCManager.checkout(target): target is '.' or a .dvc file; the command
\* fails when the .dvc file does not exist
dvc_checkout(files, target, outcome) ==
    LET targets == IF target = "." THEN TrackedFiles
                   ELSE {f \in TrackedFiles : DvcFile(f) = target}
        found == target = "." \/ \E f \in targets : Exists(files, DvcFile(f))
    IN  IF RunChecked(outcome) = "none" /\ found
        THEN [fs |-> CheckedOut(files, targets), ret |-> TRUE, exc |-> "none"]
        ELSE [fs |-> files, ret |-> FALSE, exc |-> "none"]

\* -------------------------------------------------------- VersionController
\* `git tag -l` lists the tags sorted by name: VersionNames is in that order
VersionNames == <<"v1", "v10", "v2", "v3", "v4">>
Versions == {VersionNames[i] : i \in 1 .. MaxVersions}
None == [version |-> MISSING]

\* _save_snapshot_metadata(snapshot_info)
_save_snapshot_metadata(w, snapshot_info) ==
    [w EXCEPT !.snapshots =
        (snapshot_info.version :> snapshot_info) @@ w.snapshots]

\* _load_snapshot_metadata(version_tag)
_load_snapshot_metadata(w, version_tag) ==
    IF version_tag \in DOMAIN w.snapshots THEN w.snapshots[version_tag] ELSE None

\* _git_commit(tag, message): git add of the pointer files and git commit,
\* all with check=False
_git_commit(w, outcome) ==
    [w |-> IF outcome = "ok" THEN [w EXCEPT !.head = Pointers(w.fs)] ELSE w,
     exc |-> RunUnchecked(outcome)]

\* _git_tag(tag, message): CalledProcessError is logged and swallowed
_git_tag(w, tag, outcome) ==
    IF RunChecked(outcome) = "none" /\ tag \notin DOMAIN w.tags
    THEN [w |-> [w EXCEPT !.tags = (tag :> w.head) @@ w.tags],
          ok |-> TRUE, exc |-> "none"]
    ELSE [w |-> w, ok |-> FALSE, exc |-> "none"]

\* _git_checkout(tag): check=True
_git_checkout(w, tag, outcome) ==
    IF RunChecked(outcome) = "none" /\ tag \in DOMAIN w.tags
    THEN [w |-> [w EXCEPT !.head = w.tags[tag],
                          !.fs = WithPointers(w.fs, w.tags[tag])],
          exc |-> "none"]
    ELSE [w |-> w, exc |-> "CalledProcessError"]

\* list_snapshots()
list_snapshots(w, outcome) ==
    LET tags == SelectSeq(VersionNames,
                          LAMBDA t : t \in DOMAIN w.tags)
        with_metadata == SelectSeq(tags,
                          LAMBDA t : _load_snapshot_metadata(w, t) # None)
    IN  IF RunChecked(outcome) = "none"
        THEN [ret |-> [i \in 1 .. Len(with_metadata) |->
                          _load_snapshot_metadata(w, with_metadata[i])],
              ok |-> TRUE, exc |-> "none"]
        ELSE [ret |-> << >>, ok |-> FALSE, exc |-> "none"]

\* A call in progress: c.w the state, c.exc the exception being raised
\* ("none": none), c.trace what the call has logged and run so far; a step of
\* a call that is raising does nothing.
Raise(c, exception) == [c EXCEPT !.exc = exception]
Log(c, event) == [c EXCEPT !.trace = Append(@, event)]
\* the command was run; the code logs its failure
Ran(c, command, ok) ==
    IF ok THEN Log(c, command) ELSE Log(Log(c, command), "failed " \o command)

\* get_current_version's version_info before any entry is set
NoVersionInfo ==
    [git_commit |-> MISSING, git_branch |-> MISSING, latest_tag |-> MISSING,
     dvc_status |-> MISSING]

VersionCommands ==
    {"git rev-parse HEAD", "git rev-parse --abbrev-ref HEAD", "git describe",
     "dvc status"}

\* DVCManager.status(): is the status empty; CalledProcessError is logged and
\* swallowed, and {} is returned
dvc_status_empty(files, outcome) ==
    \/ RunChecked(outcome) # "none"
    \/ \A f \in TrackedFiles :
          files[DvcFile(f)] = ABSENT \/ files[f] = files[DvcFile(f)]

\* one `git rev-parse` of get_current_version (lines 218-233): check=True
RevParse(c, command, key, outcome) ==
    IF c.exc # "none" THEN c
    ELSE IF RunChecked(outcome) # "none"
    THEN Raise(Ran(c, command, FALSE), RunChecked(outcome))
    ELSE [Ran(c, command, TRUE) EXCEPT !.info[key] = "set"]

\* lines 236-242: `git describe --tags --abbrev=0`, check=False; it exits
\* non-zero when there is no tag
Describe(c, tags, outcome) ==
    IF c.exc # "none" THEN c
    ELSE [Log(c, "git describe") EXCEPT
            !.info.latest_tag = IF outcome = "ok" /\ DOMAIN tags # {}
                                THEN "set" ELSE "N/A"]

\* lines 245-246
DvcStatus(c, files, outcome) ==
    IF c.exc # "none" THEN c
    ELSE [Ran(c, "dvc status", outcome = "ok") EXCEPT
            !.info.dvc_status = IF dvc_status_empty(files, outcome)
                                THEN "clean" ELSE "modified"]

\* lines 248-251: `except Exception` logs, version_info is returned as it is
VersionReturn(c) == [ret |-> c.info, exc |-> "none", trace |-> c.trace]

\* get_current_version()
get_current_version(w, env) ==
    VersionReturn(
        DvcStatus(
            Describe(
                RevParse(
                    RevParse([info |-> NoVersionInfo, exc |-> "none", trace |-> << >>],
                             "git rev-parse HEAD", "git_commit",
                             env["git rev-parse HEAD"]),
                    "git rev-parse --abbrev-ref HEAD", "git_branch",
                    env["git rev-parse --abbrev-ref HEAD"]),
                w.tags, env["git describe"]),
            w.fs, env["dvc status"]))

CreateCommands ==
    {"dvc add data", "dvc add model", "git commit", "git rev-parse", "git tag",
     "dvc push"}
RestoreCommands == {"git checkout", "dvc pull", "dvc checkout ."}

\* create_snapshot, lines 66-84: dvc add of one globbed file
StageFile(c, file, outcome) ==
    LET added == dvc_add(c.w.fs, file, outcome)
        c1 == Ran([c EXCEPT !.w.fs = added.fs], "dvc add " \o file, added.ret)
    IN  IF c.exc # "none" \/ ~Exists(c.w.fs, file) THEN c
        ELSE IF added.exc # "none" THEN Raise(c1, added.exc)
        ELSE IF added.ret THEN [c1 EXCEPT !.info.dvc_files = Append(@, file)]
        ELSE c1

\* create_snapshot, lines 86-88
CommitStep(c, outcome) ==
    LET committed == _git_commit(c.w, outcome)
    IN  IF c.exc # "none" THEN c
        ELSE Raise(Log([c EXCEPT !.w = committed.w], "git commit"), committed.exc)

\* create_snapshot, lines 90-97
RevParseStep(c, outcome) ==
    LET c1 == Log(c, "git rev-parse HEAD")
    IN  IF c.exc # "none" THEN c
        ELSE IF RunChecked(outcome) # "none" THEN Raise(c1, RunChecked(outcome))
        ELSE [c1 EXCEPT !.info.git_commit = "HEAD"]

\* create_snapshot, lines 99-100
TagStep(c, outcome) ==
    LET tagged == _git_tag(c.w, c.info.version, outcome)
    IN  IF c.exc # "none" THEN c
        ELSE Raise(Ran([c EXCEPT !.w = tagged.w], "git tag " \o c.info.version,
                       tagged.ok),
                   tagged.exc)

\* create_snapshot, lines 102-104
PushStep(c, outcome) ==
    IF c.exc # "none" THEN c
    ELSE Raise(Ran(c, "dvc push", dvc_push(outcome).ret), dvc_push(outcome).exc)

\* create_snapshot, lines 106-107
SaveStep(c) ==
    IF c.exc # "none" THEN c
    ELSE Log([c EXCEPT !.w = _save_snapshot_metadata(c.w, c.info)],
             "save metadata " \o c.info.version)

\* CreateSteps that saves the metadata right after the commit
CreateStepsSavingEarly(c, include_data, include_models, env) ==
    LET staged_data == IF include_data
                       THEN StageFile(c, DataFile, env["dvc add data"]) ELSE c
        staged == IF include_models
                  THEN StageFile(staged_data, ModelFile, env["dvc add model"])
                  ELSE staged_data
        committed == CommitStep(staged, env["git commit"])
        saved == SaveStep(committed)
        parsed == RevParseStep(saved, env["git rev-parse"])
        tagged == TagStep(parsed, env["git tag"])
    IN  PushStep(tagged, env["dvc push"])

\* the steps of create_snapshot in the order of its body
CreateSteps(c, include_data, include_models, env) ==
    LET staged_data == IF include_data
                       THEN StageFile(c, DataFile, env["dvc add data"]) ELSE c
        staged == IF include_models
                  THEN StageFile(staged_data, ModelFile, env["dvc add model"])
                  ELSE staged_data
        committed == CommitStep(staged, env["git commit"])
        parsed == RevParseStep(committed, env["git rev-parse"])
        tagged == TagStep(parsed, env["git tag"])
        pushed == PushStep(tagged, env["dvc push"])
    IN  SaveStep(pushed)

\* create_snapshot(version_tag, description, include_data, include_models) at
\* time now: c.info is what it returns unless c.exc is raised
create_snapshot(w, now, version_tag, include_data, include_models, env) ==
    CreateSteps([w |-> w, exc |-> "none", trace |-> << >>,
                 info |-> [version |-> version_tag, timestamp |-> now,
                           git_commit |-> MISSING, dvc_files |-> << >>]],
                include_data, include_models, env)

\* LoadStep that goes on without the metadata
LoadStepLenient(c, version_tag) == c

\* restore_snapshot, lines 143-146
LoadStep(c, version_tag) ==
    IF _load_snapshot_metadata(c.w, version_tag) = None
    THEN Raise(c, "ValueError") ELSE c

\* restore_snapshot, lines 151-154
CheckoutCodeStep(c, version_tag, restore_code, outcome) ==
    LET checked_out == _git_checkout(c.w, version_tag, outcome)
    IN  IF c.exc # "none" \/ ~restore_code THEN c
        ELSE Raise(Ran([c EXCEPT !.w = checked_out.w], "git checkout " \o version_tag,
                       checked_out.exc = "none"),
                   checked_out.exc)

\* restore_snapshot, lines 156-162
CheckoutDataStep(c, restore_data, restore_models, env) ==
    LET pulled == dvc_pull(c.w.fs, env["dvc pull"])
        c1 == Ran([c EXCEPT !.w.fs = pulled.fs], "dvc pull", pulled.ret)
        checked_out == dvc_checkout(c1.w.fs, ".", env["dvc checkout ."])
        c2 == Ran([c1 EXCEPT !.w.fs = checked_out.fs], "dvc checkout .",
                  checked_out.ret)
    IN  IF c.exc # "none" \/ ~(restore_data \/ restore_models) THEN c
        ELSE IF pulled.exc # "none" THEN Raise(c1, pulled.exc)
        ELSE Raise(c2, checked_out.exc)

\* restore_snapshot, lines 168-172: True unless an exception was raised
RestoreReturn(c) == [w |-> c.w, ret |-> c.exc = "none", trace |-> c.trace]

\* restore_snapshot(version_tag, restore_data, restore_models, restore_code)
restore_snapshot(w, version_tag, restore_data, restore_models, restore_code, env) ==
    LET c0 == [w |-> w, exc |-> "none",
               trace |-> <<"restore_snapshot " \o version_tag>>]
        loaded == LoadStep(c0, version_tag)
        code == CheckoutCodeStep(loaded, version_tag, restore_code,
                                 env["git checkout"])
    IN  RestoreReturn(CheckoutDataStep(code, restore_data, restore_models, env))

\* ---------------------------------------------------------- RecoveryManager
RecoverCommands == {"dvc checkout file", "git tag -l"} \cup RestoreCommands

\* recovery_result as recover_from_incident creates it
NewResult(incident) ==
    [incident |-> incident, start_time |-> "set", status |-> "in_progress",
     actions_taken |-> << >>, end_time |-> MISSING, error |-> MISSING,
     restored_version |-> MISSING, note |-> MISSING]

NoResult == [NewResult(NoIncident) EXCEPT !.start_time = MISSING, !.status = MISSING]

\* Succeed without the return: the chain goes on after a strategy worked
SucceedAndGoOn(c, action) ==
    [c EXCEPT !.result.actions_taken = Append(@, action),
              !.result.status = "success"]

\* a strategy that worked: append the action, status 'success', return
Succeed(c, action) ==
    [c EXCEPT !.result.actions_taken = Append(@, action),
              !.result.status = "success", !.done = TRUE]

\* Strategy 1 (lines 97-104 and 149-157): restore from the backup copy
RestoreFromBackup(c, backup_path, affected_file) ==
    LET c1 == Log(c, "Restoring from backup")
        cp == copy2(c.w.fs, backup_path, affected_file)
    IN  IF c.done \/ c.exc # "none" \/ ~Exists(c.w.fs, backup_path) THEN c
        ELSE IF cp.exc # "none" THEN Raise(c1, cp.exc)
        ELSE Succeed([c1 EXCEPT !.w.fs = cp.fs], "restored_from_backup")

\* Strategy 2 (lines 106-112 and 159-166): dvc checkout of the file's .dvc
\* file; guarded: the command runs only if the .dvc file exists
RestoreFromDvc(c, dvc_file, guarded, outcome) ==
    LET c1 == Log(c, "Attempting DVC restore...")
        checked_out == dvc_checkout(c.w.fs, dvc_file, outcome)
        c2 == Ran([c1 EXCEPT !.w.fs = checked_out.fs], "dvc checkout " \o dvc_file,
                  checked_out.ret)
    IN  IF c.done \/ c.exc # "none" THEN c
        ELSE IF guarded /\ ~Exists(c.w.fs, dvc_file) THEN c1
        ELSE IF checked_out.exc # "none" THEN Raise(c2, checked_out.exc)
        ELSE IF checked_out.ret THEN Succeed(c2, "restored_from_dvc")
        ELSE c2

\* lines 122-132: what the strategy makes of what restore_snapshot returned
AfterRestore(c, latest_snapshot, restored) ==
    LET c2 == [c EXCEPT !.w = restored.w, !.trace = @ \o restored.trace]
    IN  IF restored.ret
        THEN [Succeed(c2, "full_data_restore")
                EXCEPT !.result.restored_version = latest_snapshot.version]
        ELSE c2

\* lines 115-127: snapshots[-1] of the snapshots listed, if any, is restored
RestoreLatest(c, listed, env) ==
    LET c1 == Ran(c, "git tag -l", listed.ok)
        snapshots == listed.ret
    IN  IF listed.exc # "none" THEN Raise(c1, listed.exc)
        ELSE IF snapshots = << >> THEN c1
        ELSE AfterRestore(c1, snapshots[Len(snapshots)],
                          restore_snapshot(c.w, snapshots[Len(snapshots)].version,
                                           TRUE, FALSE, FALSE, env))

\* Strategy 3 of data corruption (lines 114-132): restore the last snapshot
\* list_snapshots returns
FullRestore(c, env) ==
    IF c.done \/ c.exc # "none" THEN c
    ELSE RestoreLatest(Log(c, "attempting full restore..."),
                       list_snapshots(c.w, env["git tag -l"]), env)

\* lines 134-136 and 173-175
AllFailed(c) ==
    IF c.done \/ c.exc # "none" THEN c
    ELSE [c EXCEPT !.result.status = "failed",
                   !.result.error = "All recovery strategies failed",
                   !.done = TRUE]

\* _recover_data_corruption(incident, recovery_result)
_recover_data_corruption(c, incident, env) ==
    LET affected_file == PathOf(incident.affected_file)
        backup_path == PathOf(Get(incident.backup_path, ""))
        s1 == RestoreFromBackup(c, backup_path, affected_file)
        s2 == RestoreFromDvc(s1, DvcFile(affected_file), FALSE,
                             env["dvc checkout file"])
        s3 == FullRestore(s2, env)
    IN  IF incident.affected_file = MISSING THEN Raise(c, "KeyError")
        ELSE AllFailed(s3)

\* Strategy 3 of model degradation (lines 168-171): a log line, nothing else
RestoreFromMlflow(c) ==
    IF c.done \/ c.exc # "none" THEN c
    ELSE Log(c, "Attempting MLflow model restore...")

\* _recover_model_degradation(incident, recovery_result)
_recover_model_degradation(c, incident, env) ==
    LET affected_file == PathOf(incident.affected_file)
        backup_path == PathOf(Get(incident.backup_path, ""))
        s1 == RestoreFromBackup(c, backup_path, affected_file)
        s2 == RestoreFromDvc(s1, DvcFile(affected_file), TRUE,
                             env["dvc checkout file"])
    IN  IF incident.affected_file = MISSING THEN Raise(c, "KeyError")
        ELSE AllFailed(RestoreFromMlflow(s2))

\* _recover_pipeline_failure that leaves the marker file in place
RecoverPipelineKeepingMarker(c, incident) ==
    [Succeed(c, "cleared_failure_markers")
        EXCEPT !.result.note = "Pipeline can be restarted"]

\* _recover_pipeline_failure(incident, recovery_result)
_recover_pipeline_failure(c, incident) ==
    LET marker_file == PathOf(Get(incident.marker_file, ""))
        removed == unlink(c.w.fs, marker_file)
        c1 == IF Exists(c.w.fs, marker_file)
              THEN Raise(Log([c EXCEPT !.w.fs = removed.fs],
                             "unlink " \o marker_file), removed.exc)
              ELSE c
    IN  IF c1.exc # "none" THEN c1
        ELSE [Succeed(c1, "cleared_failure_markers")
                EXCEPT !.result.note = "Pipeline can be restarted"]

\* verify_recovery(affected_path): the file exists and its size is not 0
verify_recovery(files, affected_path) ==
    IF ~Exists(files, affected_path) THEN FALSE
    ELSE IF files[affected_path] = EMPTY THEN FALSE
    ELSE TRUE

\* the dispatch of recover_from_incident on incident.get('type'), lines 55-68
Dispatch(c, incident, env) ==
    CASE incident.type = "data_corruption" -> _recover_data_corruption(c, incident, env)
      [] incident.type = "model_degradation" ->
            _recover_model_degradation(c, incident, env)
      [] incident.type = "pipeline_failure" -> _recover_pipeline_failure(c, incident)
      [] OTHER -> [c EXCEPT !.result.status = "unknown_incident_type"]

\* Finish whose except branch sets no end_time
FinishWithoutEndTime(c) ==
    IF c.exc = "none" THEN [c.result EXCEPT !.end_time = "set"]
    ELSE [c.result EXCEPT !.status = "failed", !.error = c.exc]

\* lines 70-84: what recover_from_incident returns once the strategies ended
Finish(c) ==
    IF c.exc = "none" THEN [c.result EXCEPT !.end_time = "set"]
    ELSE [c.result EXCEPT !.status = "failed", !.error = c.exc, !.end_time = "set"]

\* RecoverReturn without the except branch: the exception goes to the caller
RecoverReturnRaising(c) ==
    [w |-> c.w, result |-> c.result, trace |-> c.trace, exc |-> c.exc]

\* lines 78 and 84: recovery_result is returned on both paths, `except
\* Exception` lets nothing through
RecoverReturn(c) ==
    [w |-> c.w, result |-> Finish(c), trace |-> c.trace, exc |-> "none"]

\* recover_from_incident(incident, target_version)
recover_from_incident(w, incident, target_version, env) ==
    RecoverReturn(Dispatch([w |-> w, exc |-> "none", trace |-> << >>,
                            done |-> FALSE, result |-> NewResult(incident)],
                           incident, env))

\* the incident dicts a caller passes to recover_from_incident: those the
\* generator returns (recovery reads no subtype: one subtype of each type),
\* and dicts that hold the type alone
IncidentRecords ==
    {[NewIncident("data_corruption", "random", "active")
        EXCEPT !.affected_file = DataFile, !.backup_path = BackupPath(DataFile)],
     [NewIncident("data_corruption", "random", "failed")
        EXCEPT !.affected_file = DataFile, !.error = "FileNotFoundError"],
     [NewIncident("model_degradation", "delete", "active")
        EXCEPT !.affected_file = ModelFile, !.backup_path = BackupPath(ModelFile)],
     [NewIncident("model_degradation", "delete", "failed")
        EXCEPT !.affected_file = ModelFile, !.error = "FileNotFoundError"],
     NewIncident("none", MISSING, "no_target_found")}
    \cup {simulate_pipeline_failure([p \in Paths |-> ABSENT], fp).incident
        : fp \in FailurePoints}
    \cup {NewIncident(t, MISSING, MISSING) : t \in IncidentTypes \ {"none"}}


\* --------------------------------------------------------------- the models
\* A model object is its is_fitted flag and its params; the keyword arguments
\* are (n_estimators, max_depth).  fit, and set_params of the classifier,
\* end "ok" or raise ValueError ("fail": bad training data, unknown parameter).
ParamValues == {<<10, 3>>, <<100, 10>>, <<200, 5>>}
DefaultParams == <<100, 10>>

\* BaseModel.__init__ and RandomForestModel.__init__
RandomForestModel(params) == [is_fitted |-> FALSE, params |-> params]

\* _validate_fitted that accepts every model
ValidateNothing(model) == "none"

\* BaseModel._validate_fitted(): the exception it raises, if any
_validate_fitted(model) ==
    IF ~model.is_fitted THEN "RuntimeError" ELSE "none"

\* RandomForestModel.train(X, y)
train(model, fit) ==
    IF fit = "ok" THEN [model |-> [model EXCEPT !.is_fitted = TRUE], exc |-> "none"]
    ELSE [model |-> model, exc |-> "ValueError"]

\* RandomForestModel.predict(X), predict_proba(X), get_feature_importance()
predict(model) == [model |-> model, exc |-> _validate_fitted(model)]
predict_proba(model) == [model |-> model, exc |-> _validate_fitted(model)]
get_feature_importance(model) == [model |-> model, exc |-> _validate_fitted(model)]

\* RandomForestModel.get_params()
get_params(model) == [model |-> model, exc |-> "none"]

\* RandomForestModel.set_params(**params)
set_params(model, params, outcome) ==
    IF outcome = "ok" THEN [model |-> [model EXCEPT !.params = params], exc |-> "none"]
    ELSE [model |-> model, exc |-> "ValueError"]

\* ModelTrainer.train(X_train, y_train, X_val, y_val): validate tells whether
\* validation data is given
AfterTrain(trained, validate) ==
    IF trained.exc = "none" /\ validate THEN predict(trained.model) ELSE trained

trainer_train(model, fit, validate) == AfterTrain(train(model, fit), validate)

\* ModelTrainer.save_model(version): files maps a version to the model dumped
\* in its directory
save_model(model, files, version) ==
    IF ~model.is_fitted THEN [model |-> model, files |-> files, exc |-> "RuntimeError"]
    ELSE [model |-> model, files |-> (version :> model) @@ files, exc |-> "none"]

\* ModelTrainer.load_model(model_path)
load_model(model, files, version) ==
    IF version \notin DOMAIN files
    THEN [model |-> model, files |-> files, exc |-> "FileNotFoundError"]
    ELSE [model |-> files[version], files |-> files, exc |-> "none"]

\* ------------------------------------------------------------ ConfigManager
\* A string is the sequence of its characters.  A Python value is None, a
\* scalar (0 is falsy) or a dict: items maps the keys the dict has.
MaxKeyLen == 3
Chars == {"a", "b", "."}
KeyNames == {<<"a">>, <<"b">>}
Keys == UNION {[1 .. n -> Chars] : n \in 0 .. MaxKeyLen}

PyNone == [kind |-> "none"]
Scalar(v) == [kind |-> "scalar", v |-> v]
Dict(items) == [kind |-> "dict", items |-> items]

\* what yaml.safe_load can give: dicts nested two deep over None and scalars
Leaves == {PyNone, Scalar(0), Scalar(1)}
DictsOver(values) ==
    {Dict(items) : items \in UNION {[names -> values] : names \in SUBSET KeyNames}}
Configs == DictsOver(Leaves \cup DictsOver(Leaves))
Defaults == {PyNone, Scalar(7)}

\* a config with model.type, as tests/test_config.py reads it
DefaultConfig == Dict(<<"a">> :> Dict(<<"b">> :> Scalar(1)))

\* key.split('.')
RECURSIVE split(_)
split(key) ==
    IF key = << >> THEN << << >> >>
    ELSE IF Head(key) = "." THEN << << >> >> \o split(Tail(key))
    ELSE << <<Head(key)>> \o Head(split(Tail(key))) >> \o Tail(split(Tail(key)))

\* dict.get(k)
dict_get(value, k) ==
    IF k \in DOMAIN value.items THEN value.items[k] ELSE PyNone

\* the loop of get whose test is `if not value`
RECURSIVE LoopOnFalsy(_, _, _)
LoopOnFalsy(value, keys, default) ==
    IF keys = << >> THEN value
    ELSE IF value.kind = "dict"
         THEN IF dict_get(value, Head(keys)) \in {PyNone, Scalar(0), Dict(<< >>)}
              THEN default
              ELSE LoopOnFalsy(dict_get(value, Head(keys)), Tail(keys), default)
         ELSE default

\* get, lines 107-115: the loop over keys
RECURSIVE Loop(_, _, _)
Loop(value, keys, default) ==
    IF keys = << >> THEN value
    ELSE IF value.kind = "dict"
         THEN IF dict_get(value, Head(keys)) = PyNone
              THEN default
              ELSE Loop(dict_get(value, Head(keys)), Tail(keys), default)
         ELSE default

\* ConfigManager.get(key, default)
get(_config, key, default) == Loop(_config, split(key), default)

\* ---------------------------------------------------------------- the state
VARIABLES
    fs,            \* the files: path -> ABSENT, DIRECTORY or content
    head,          \* git: the .dvc pointer files committed at HEAD
    tags,          \* git: tag -> the pointer files committed at the tag
    snapshots,     \* version -> the content of .snapshots/<version>.json
    clock,         \* datetime.now()
    calls,         \* how many calls the caller still makes
    faults,        \* how many external commands have been made to fail
    call,          \* the call that has just ended: its name and arguments;
                   \* "idle" once its caller has taken what it returned
    incident,      \* the incident the last simulate_* call returned
    result,        \* what the last recover_from_incident returned
    ret,           \* what the last restore_snapshot or verify_recovery returned
    raised,        \* the exception the last call raised to its caller
    trace,         \* what the last call logged and ran, in order
    listed,        \* what the last list_snapshots returned
    version_info,  \* what the last get_current_version returned
    taken,         \* version -> the content the tracked files had when
                   \* create_snapshot last completed for the version
    rf,            \* a RandomForestModel: is_fitted and params
    model_files,   \* version -> the model ModelTrainer.save_model dumped
    config,        \* ConfigManager._config
    value          \* what the last ConfigManager.get returned

vars == <<fs, head, tags, snapshots, clock, calls, faults, call,
          incident,
          result, ret, raised, trace, listed, version_info, taken,
          rf, model_files, config, value>>

World == [fs |-> fs, head |-> head, tags |-> tags, snapshots |-> snapshots]

SetWorld(w) ==
    /\ fs' = w.fs
    /\ head' = w.head
    /\ tags' = w.tags
    /\ snapshots' = w.snapshots

Idle == [op |-> "idle", args |-> << >>]

\* the workspace after prepare_data and train_pipeline, before any snapshot;
\* the model object is the one RandomForestModel() constructs
Workspace ==
    /\ fs = [p \in Paths |->
                CASE p = "." -> DIRECTORY
                  [] p \in TrackedFiles -> ORIGINAL
                  [] OTHER -> ABSENT]
    /\ head = [f \in TrackedFiles |-> ABSENT]
    /\ tags = << >>
    /\ snapshots = << >>
    /\ clock = 1
    /\ faults = 0
    /\ call = Idle
    /\ incident = NoIncident
    /\ result = NoResult
    /\ ret = FALSE
    /\ raised = "none"
    /\ trace = << >>
    /\ listed = << >>
    /\ version_info = NoVersionInfo
    /\ taken = << >>
    /\ rf = RandomForestModel(DefaultParams)
    /\ model_files = << >>
    /\ value = PyNone

\* a caller that makes up to MaxCalls calls on the incident, recovery and
\* versioning interface
Init ==
    /\ Workspace
    /\ calls = MaxCalls
    /\ config = DefaultConfig

\* a content that is in no file and in no committed pointer file
Fresh ==
    LET held == {fs[p] : p \in Paths}
                \cup {head[f] : f \in TrackedFiles}
                \cup {tags[t][f] : t \in DOMAIN tags, f \in TrackedFiles}
    IN  1 + CHOOSE c \in held : \A d \in held : d <= c

\* a call starts: no call is in progress and the budget of calls allows it;
\* env is the outcome of each external command it may run
Called(env) ==
    /\ call = Idle
    /\ calls > 0
    /\ calls' = calls - 1
    /\ faults' = faults + Faults(env)

\* the call was neither list_snapshots nor get_current_version
NoQuery ==
    /\ listed' = << >>
    /\ version_info' = NoVersionInfo

\* the call was on the incident, recovery or versioning interface
NoModelCall == UNCHANGED <<rf, model_files, config, value>>

NoCommands == [c \in {} |-> "ok"]

\* what a simulate_* call leaves: the files, the log and the returned incident
Simulated(name, args, out) ==
    /\ Called(NoCommands)
    /\ fs' = out.fs
    /\ incident' = out.incident
    /\ call' = [op |-> name, args |-> args]
    /\ result' = NoResult
    /\ ret' = FALSE
    /\ raised' = "none"
    /\ trace' = << >>
    /\ NoQuery
    /\ NoModelCall
    /\ UNCHANGED <<head, tags, snapshots, clock, taken>>

SimulateDataCorruption ==
    \E corruption_type \in CorruptionTypes :
        Simulated("simulate_data_corruption", <<DataFile, corruption_type>>,
                  simulate_data_corruption(fs, DataFile, corruption_type,
                                           Fresh))

SimulateModelDegradation ==
    \E degradation_type \in DegradationTypes :
        Simulated("simulate_model_degradation", <<ModelFile, degradation_type>>,
                  simulate_model_degradation(fs, ModelFile, degradation_type))

SimulatePipelineFailure ==
    \E failure_point \in FailurePoints :
        Simulated("simulate_pipeline_failure", <<failure_point>>,
                  simulate_pipeline_failure(fs, failure_point))

SimulateRandomIncident ==
    \E choice \in RandomChoices :
        Simulated("simulate_random_incident", << >>,
                  simulate_random_incident(fs, choice, Fresh))

\* what a recover_from_incident call leaves
Recovery(env, args, out) ==
    /\ Called(env)
    /\ SetWorld(out.w)
    /\ result' = out.result
    /\ trace' = out.trace
    /\ call' = [op |-> "recover_from_incident", args |-> args]
    /\ ret' = FALSE
    /\ raised' = out.exc
    /\ NoQuery
    /\ NoModelCall
    /\ UNCHANGED <<clock, incident, taken>>

\* what a create_snapshot call leaves
Created(env, args, out) ==
    /\ Called(env)
    /\ clock' = clock + 1
    /\ SetWorld(out.w)
    /\ raised' = out.exc
    /\ trace' = out.trace
    /\ call' = [op |-> "create_snapshot", args |-> args]
    /\ ret' = FALSE
    /\ result' = NoResult
    /\ taken' = IF out.exc = "none"
                 THEN (args[1] :> [f \in TrackedFiles |-> fs[f]]) @@ taken
                 ELSE taken
    /\ NoQuery
    /\ NoModelCall
    /\ UNCHANGED incident

\* what a restore_snapshot call leaves
Restored(env, args, out) ==
    /\ Called(env)
    /\ SetWorld(out.w)
    /\ ret' = out.ret
    /\ trace' = out.trace
    /\ call' = [op |-> "restore_snapshot", args |-> args]
    /\ raised' = "none"
    /\ result' = NoResult
    /\ NoQuery
    /\ NoModelCall
    /\ UNCHANGED <<clock, incident, taken>>

\* recover_from_incident(incident, target_version); target_version MISSING
\* is the default None
RecoverFromIncident ==
    \E env \in Envs(RecoverCommands, MaxFaults - faults), inc \in IncidentRecords,
       target_version \in Versions \cup {MISSING} :
        Recovery(env, <<inc, target_version>>,
                 recover_from_incident(World, inc, target_version, env))

\* create_snapshot(version_tag, description, include_data, include_models)
CreateSnapshot ==
    \E env \in Envs(CreateCommands, MaxFaults - faults), version_tag \in Versions,
       include_data \in BOOLEAN, include_models \in BOOLEAN :
        Created(env, <<version_tag, include_data, include_models>>,
                create_snapshot(World, clock, version_tag, include_data,
                                include_models, env))

\* restore_snapshot(version_tag, restore_data, restore_models, restore_code)
RestoreSnapshot ==
    \E env \in Envs(RestoreCommands, MaxFaults - faults), version_tag \in Versions,
       restore_data \in BOOLEAN, restore_models \in BOOLEAN,
       restore_code \in BOOLEAN :
        Restored(env, <<version_tag, restore_data, restore_models, restore_code>>,
                 restore_snapshot(World, version_tag, restore_data,
                                  restore_models, restore_code, env))

\* what a list_snapshots call leaves
Listing(env, out) ==
    /\ Called(env)
    /\ listed' = out.ret
    /\ raised' = out.exc
    /\ trace' = Ran([trace |-> << >>], "git tag -l", out.ok).trace
    /\ call' = [op |-> "list_snapshots", args |-> << >>]
    /\ version_info' = NoVersionInfo
    /\ ret' = FALSE
    /\ result' = NoResult
    /\ NoModelCall
    /\ UNCHANGED <<fs, head, tags, snapshots, clock, incident, taken>>

\* list_snapshots()
ListSnapshots ==
    \E env \in Envs({"git tag -l"}, MaxFaults - faults) :
        Listing(env, list_snapshots(World, env["git tag -l"]))

\* what a call on the model or its trainer leaves
ModelCalled(name, args, model, files, exc) ==
    /\ Called(NoCommands)
    /\ rf' = model
    /\ model_files' = files
    /\ raised' = exc
    /\ call' = [op |-> name, args |-> args]
    /\ trace' = << >>
    /\ ret' = FALSE
    /\ result' = NoResult
    /\ NoQuery
    /\ UNCHANGED <<fs, head, tags, snapshots, clock, incident, taken, config, value>>

\* what a call on the model leaves: the files of the trainer are not touched
OnModel(name, args, out) == ModelCalled(name, args, out.model, model_files, out.exc)

\* what a save_model or load_model call leaves
OnTrainer(name, args, out) == ModelCalled(name, args, out.model, out.files, out.exc)

NewModel ==
    \E params \in ParamValues :
        ModelCalled("RandomForestModel", <<params>>, RandomForestModel(params),
                    model_files, "none")

Train ==
    \E fit \in Outcomes, validate \in BOOLEAN :
        OnModel("train", <<validate>>, trainer_train(rf, fit, validate))

Predict == OnModel("predict", << >>, predict(rf))

PredictProba == OnModel("predict_proba", << >>, predict_proba(rf))

GetFeatureImportance ==
    OnModel("get_feature_importance", << >>, get_feature_importance(rf))

GetParams == OnModel("get_params", << >>, get_params(rf))

SetParams ==
    \E params \in ParamValues, outcome \in Outcomes :
        OnModel("set_params", <<params>>, set_params(rf, params, outcome))

SaveModel ==
    \E version \in Versions :
        OnTrainer("save_model", <<version>>, save_model(rf, model_files, version))

LoadModel ==
    \E version \in Versions :
        OnTrainer("load_model", <<version>>, load_model(rf, model_files, version))

\* what a get_current_version call leaves
Versioned(env, out) ==
    /\ Called(env)
    /\ version_info' = out.ret
    /\ raised' = out.exc
    /\ trace' = out.trace
    /\ call' = [op |-> "get_current_version", args |-> << >>]
    /\ listed' = << >>
    /\ ret' = FALSE
    /\ result' = NoResult
    /\ NoModelCall
    /\ UNCHANGED <<fs, head, tags, snapshots, clock, incident, taken>>

\* get_current_version()
GetCurrentVersion ==
    \E env \in Envs(VersionCommands, MaxFaults - faults) :
        Versioned(env, get_current_version(World, env))

\* what a verify_recovery call leaves; the result of the recovery it follows
\* stays with the caller
Verified(affected_path, out) ==
    /\ calls > 0
    /\ calls' = calls - 1
    /\ ret' = out
    /\ call' = [op |-> "verify_recovery", args |-> <<affected_path>>]
    /\ raised' = "none"
    /\ trace' = << >>
    /\ NoQuery
    /\ NoModelCall
    /\ UNCHANGED <<fs, head, tags, snapshots, clock, faults, incident, result, taken>>

\* step 4 of scripts/simulate_incident.py: after recover_from_incident(incident)
\* for a data or model incident, verify_recovery(Path(incident['affected_file']))
VerifyRecovery ==
    /\ call.op = "recover_from_incident"
    /\ call.args[1].type \in {"data_corruption", "model_degradation"}
    /\ call.args[1].affected_file # MISSING
    /\ Verified(PathOf(call.args[1].affected_file),
                verify_recovery(fs, PathOf(call.args[1].affected_file)))

\* what a ConfigManager.get call leaves
Got(args, out) ==
    /\ Called(NoCommands)
    /\ value' = out
    /\ call' = [op |-> "get", args |-> args]
    /\ raised' = "none"
    /\ trace' = << >>
    /\ ret' = FALSE
    /\ result' = NoResult
    /\ NoQuery
    /\ UNCHANGED <<fs, head, tags, snapshots, clock, incident, taken, rf,
                   model_files, config>>

\* config.get(key, default)
ConfigGet ==
    \E key \in Keys, default \in Defaults :
        Got(<<key, default>>, get(config, key, default))

\* the caller takes what the call returned (or raised) and goes on
Return ==
    /\ call # Idle
    /\ call' = Idle
    /\ incident' = NoIncident
    /\ result' = NoResult
    /\ ret' = FALSE
    /\ raised' = "none"
    /\ trace' = << >>
    /\ NoQuery
    /\ value' = PyNone
    /\ UNCHANGED <<fs, head, tags, snapshots, clock, calls, faults, taken,
                   rf, model_files, config>>

Next ==
    \/ SimulateDataCorruption
    \/ SimulateModelDegradation
    \/ SimulatePipelineFailure
    \/ SimulateRandomIncident
    \/ RecoverFromIncident
    \/ CreateSnapshot
    \/ RestoreSnapshot
    \/ ListSnapshots
    \/ GetCurrentVersion
    \/ VerifyRecovery
    \/ Return

Spec == Init /\ [][Next]_vars

\* a caller of the versioning interface between data corruptions (the calls
\* scripts/simulate_incident.py and RecoveryManager make), MaxVersioningCalls calls
InitVersioning ==
    /\ Workspace
    /\ calls = MaxVersioningCalls
    /\ config = DefaultConfig

NextVersioning ==
    \/ SimulateDataCorruption
    \/ CreateSnapshot
    \/ RestoreSnapshot
    \/ Return

SpecVersioning == InitVersioning /\ [][NextVersioning]_vars

\* a caller of the model and of its trainer (scripts/train_pipeline.py, the
\* tests): MaxCalls calls
NextModels ==
    \/ NewModel
    \/ Train
    \/ Predict
    \/ PredictProba
    \/ GetFeatureImportance
    \/ GetParams
    \/ SetParams
    \/ SaveModel
    \/ LoadModel
    \/ Return

SpecModels == Init /\ [][NextModels]_vars

\* a reader of a loaded configuration: any config of Configs, MaxCalls calls
InitConfig ==
    /\ Workspace
    /\ calls = MaxCalls
    /\ config \in Configs

NextConfig ==
    \/ ConfigGet
    \/ Return

SpecConfig == InitConfig /\ [][NextConfig]_vars

\* ---------------------------------------------------------------- the claims
Has(event) == \E i \in DOMAIN trace : trace[i] = event
Failed(command) == Has("failed " \o command)
Recovered(type) ==
    call.op = "recover_from_incident" /\ result.incident.type = type
RestoreEvent(version) == "restore_snapshot " \o version

\* the strategy an event of a data_corruption recovery belongs to
StrategyOf(event, affected_file) ==
    CASE event = "Restoring from backup" -> 1
      [] event \in {"Attempting DVC restore...",
                    "dvc checkout " \o DvcFile(affected_file),
                    "failed dvc checkout " \o DvcFile(affected_file)} -> 2
      [] OTHER -> 3

\* C1: a data_corruption recovery tries the backup copy, then the DVC checkout
\* of '<affected_file>.dvc', then the restore of a snapshot, in that order; a
\* later strategy is tried only when no earlier one succeeded, and the first
\* strategy that succeeds ends the chain with status 'success'.
C1_StrategiesInOrder ==
    (Recovered("data_corruption") /\ result.incident.affected_file # MISSING) =>
        LET affected_file == result.incident.affected_file
            checkout == "dvc checkout " \o DvcFile(affected_file)
            restores == {v \in Versions : Has(RestoreEvent(v))}
            restored == \E v \in restores :
                            result.restored_version = v
        IN  /\ \A i, j \in DOMAIN trace :
                  i < j => StrategyOf(trace[i], affected_file)
                              <= StrategyOf(trace[j], affected_file)
            /\ Has("Attempting DVC restore...") => Has(checkout)
            /\ Has("Restoring from backup") =>
                  /\ trace = <<"Restoring from backup">>
                  /\ \/ /\ result.status = "success"
                        /\ result.actions_taken = <<"restored_from_backup">>
                     \/ /\ result.status = "failed"
                        /\ result.actions_taken = << >>
                        /\ result.error # "All recovery strategies failed"
            /\ (Has(checkout) /\ ~Failed(checkout)) =>
                  /\ result.status = "success"
                  /\ result.actions_taken = <<"restored_from_dvc">>
                  /\ trace[Len(trace)] = checkout
            /\ Has("attempting full restore...") => Failed(checkout)
            /\ restored =>
                  /\ result.status = "success"
                  /\ result.actions_taken = <<"full_data_restore">>
            /\ result.status = "success" => Len(result.actions_taken) = 1
            /\ result.status = "failed" => result.actions_taken = << >>
            /\ Cardinality(restores) <= 1

\* C1 witness: the backup was missing, the DVC checkout failed and the restore
\* of a snapshot succeeded
C1_Witness ==
    /\ Recovered("data_corruption")
    /\ Failed("dvc checkout " \o DvcFile(DataFile))
    /\ result.actions_taken = <<"full_data_restore">>
    /\ result.status = "success"

\* C2: a model_degradation recovery whose backup is unavailable and whose DVC
\* checkout does not succeed attempts a full snapshot restore before it
\* reports 'failed'.
C2_ModelFullRestore ==
    (/\ Recovered("model_degradation")
     /\ Has("Attempting DVC restore...")
     /\ result.status = "failed")
        => Has("attempting full restore...")

\* C3: when no local backup is available (the backup file does not exist, or
\* the incident carries no backup_path), a data_corruption or
\* model_degradation recovery goes on to the DVC checkout strategy.
C3_NoBackupGoesOnToDvc ==
    (/\ Recovered("data_corruption") \/ Recovered("model_degradation")
     /\ result.incident.affected_file # MISSING
     /\ \/ result.incident.backup_path = MISSING
        \/ ~Has("Restoring from backup"))
        => Has("Attempting DVC restore...")

\* C4: every recover_from_incident returns a result with a terminal status
\* ('success', 'failed' or 'unknown_incident_type'), with end_time set, with
\* the incident it was called with, and with an error when the status is
\* 'failed'.
C4_OutcomeRecorded ==
    call.op = "recover_from_incident" =>
        /\ result.status \in {"success", "failed", "unknown_incident_type"}
        /\ result.end_time # MISSING
        /\ result.incident = call.args[1]
        /\ result.status = "failed" => result.error # MISSING

\* C4 witness: a recovery that ended with an exception inside a strategy
C4_Witness ==
    /\ call.op = "recover_from_incident"
    /\ result.status = "failed"
    /\ result.error = "IsADirectoryError"

\* the incident simulate_pipeline_failure returns for a failure point
PipelineIncident(failure_point) ==
    [NewIncident("pipeline_failure", failure_point, "active")
        EXCEPT !.marker_file = MarkerPath(failure_point)]

\* C5: simulate_pipeline_failure returns an incident with status 'active' and
\* creates its marker file; recover_from_incident on that incident returns
\* 'success' with the single action 'cleared_failure_markers' and leaves no
\* marker file of that incident.
C5_PipelineFailureRoundTrip ==
    /\ call.op = "simulate_pipeline_failure" =>
          /\ incident = PipelineIncident(call.args[1])
          /\ incident.status = "active"
          /\ Exists(fs, incident.marker_file)
    /\ \A failure_point \in FailurePoints :
          (/\ call.op = "recover_from_incident"
           /\ call.args[1] = PipelineIncident(failure_point)) =>
              /\ result.status = "success"
              /\ result.actions_taken = <<"cleared_failure_markers">>
              /\ ~Exists(fs, MarkerPath(failure_point))

\* C5 witness: the recovery removed the marker file of a simulated failure
C5_Witness ==
    \E failure_point \in FailurePoints :
        /\ call.op = "recover_from_incident"
        /\ call.args[1] = PipelineIncident(failure_point)
        /\ Has("unlink " \o MarkerPath(failure_point))
        /\ result.status = "success"

\* the steps a restore_snapshot call was asked to run all ran and succeeded
StepsSucceeded(version_tag, restore_data, restore_models, restore_code) ==
    /\ restore_code =>
          /\ Has("git checkout " \o version_tag)
          /\ ~Failed("git checkout " \o version_tag)
    /\ (restore_data \/ restore_models) =>
          /\ Has("dvc pull") /\ ~Failed("dvc pull")
          /\ Has("dvc checkout .") /\ ~Failed("dvc checkout .")

\* one of the steps of a restore_snapshot call failed
StepFailed(version_tag) ==
    \/ Failed("git checkout " \o version_tag)
    \/ Failed("dvc pull")
    \/ Failed("dvc checkout .")

\* C6: restore_snapshot returns True if and only if every step it was asked to
\* run (git checkout of the tag, DVC pull and DVC checkout) succeeded; when any
\* of these steps fails it returns False.
C6_TrueIffRestored ==
    call.op = "restore_snapshot" =>
        LET version_tag == call.args[1]
            succeeded == StepsSucceeded(call.args[1], call.args[2],
                                        call.args[3], call.args[4])
        IN  /\ ret => succeeded
            /\ StepFailed(version_tag) => ~ret
            /\ (succeeded /\ version_tag \in DOMAIN snapshots) => ret

\* C7: a recovery called with a target_version restores no snapshot but that
\* version, and its result's restored_version is the target_version.
C7_TargetVersionRestored ==
    (call.op = "recover_from_incident" /\ call.args[2] # MISSING) =>
        /\ \A v \in Versions : Has(RestoreEvent(v)) => v = call.args[2]
        /\ result.restored_version \in {MISSING, call.args[2]}

\* the snapshots list_snapshots returns: the tags that have a metadata file
Listed == DOMAIN snapshots \cap DOMAIN tags

\* C8: a recovery called without a target_version that reaches the full
\* restore restores the snapshot with the most recent creation timestamp among
\* the snapshots list_snapshots returns, whatever the tag names are.
C8_LatestByTimestamp ==
    (call.op = "recover_from_incident" /\ call.args[2] = MISSING) =>
        \A v \in Versions :
            Has(RestoreEvent(v)) =>
                /\ v \in Listed
                /\ \A u \in Listed :
                      snapshots[u].timestamp <= snapshots[v].timestamp

\* the position of an event in the body of create_snapshot
CreateRank(event, version_tag) ==
    CASE event \in {"dvc add " \o DataFile, "failed dvc add " \o DataFile} -> 1
      [] event \in {"dvc add " \o ModelFile, "failed dvc add " \o ModelFile} -> 2
      [] event = "git commit" -> 3
      [] event = "git rev-parse HEAD" -> 4
      [] event \in {"git tag " \o version_tag,
                    "failed git tag " \o version_tag} -> 5
      [] event \in {"dvc push", "failed dvc push"} -> 6
      [] event = "save metadata " \o version_tag -> 7
      [] OTHER -> 0

\* the state part of C9: what the events of a create_snapshot call look like
CreateInOrder ==
    call.op = "create_snapshot" =>
        LET version_tag == call.args[1]
            saved == "save metadata " \o version_tag
        IN  /\ \A i \in DOMAIN trace : CreateRank(trace[i], version_tag) > 0
            /\ \A i, j \in DOMAIN trace :
                  i < j => CreateRank(trace[i], version_tag)
                              <= CreateRank(trace[j], version_tag)
            /\ \A i \in DOMAIN trace : trace[i] = saved => i = Len(trace)
            /\ raised # "none" => ~Has(saved)
            /\ raised = "none" =>
                  /\ Has("git commit") /\ Has("git rev-parse HEAD")
                  /\ Has("git tag " \o version_tag) /\ Has("dvc push")
                  /\ trace[Len(trace)] = saved
                  /\ version_tag \in DOMAIN snapshots
            /\ (call.args[2] /\ raised = "none") => Has("dvc add " \o DataFile)

\* the action part of C9: a create_snapshot call that raises writes no metadata
NoMetadataWhenRaised ==
    (call'.op = "create_snapshot" /\ raised' # "none") => snapshots' = snapshots

\* C9: create_snapshot runs DVC add of the selected files, git commit, the read
\* of the commit hash, git tag and DVC push in this order and writes the
\* metadata file last; if a step raises, the exception reaches the caller and
\* no metadata file is written for that version.
C9_CreateStepsInOrder == []CreateInOrder /\ [][NoMetadataWhenRaised]_vars

\* C9 witness: a create_snapshot call that raised after its commit and left the
\* version without a metadata file
C9_Witness ==
    /\ call.op = "create_snapshot"
    /\ raised = "CalledProcessError"
    /\ Has("git commit")
    /\ call.args[1] \notin DOMAIN snapshots

\* the state part of C10: the commands a restore_snapshot call does not run
OnlySelectedCommands ==
    call.op = "restore_snapshot" =>
        /\ ~call.args[4] => ~Has("git checkout " \o call.args[1])
        /\ (~call.args[2] /\ ~call.args[3]) =>
              ~Has("dvc pull") /\ ~Has("dvc checkout .")

\* the action part of C10: restoring the data alone leaves the model file alone
ModelsUntouched ==
    (/\ call'.op = "restore_snapshot"
     /\ call'.args[2] /\ ~call'.args[3]) => fs'[ModelFile] = fs[ModelFile]

\* C10: restore_snapshot restores only what its flags select: no git checkout
\* with restore_code=False, no DVC operation with restore_data=False and
\* restore_models=False, and the model files unchanged with restore_data=True
\* and restore_models=False.
C10_OnlySelectedRestored == []OnlySelectedCommands /\ [][ModelsUntouched]_vars

\* the snapshot's metadata lists the file among its dvc_files
TrackedIn(version, file) ==
    /\ version \in DOMAIN snapshots
    /\ \E i \in DOMAIN snapshots[version].dvc_files :
          snapshots[version].dvc_files[i] = file

\* C11: after restore_snapshot(v, restore_data=True, restore_code=False) has
\* returned True, with dvc pull and dvc checkout having succeeded, the data
\* file that snapshot v tracks has the content it had when create_snapshot(v)
\* completed.
C11_DataOfVersionRestored ==
    (/\ call.op = "restore_snapshot"
     /\ ret
     /\ call.args[2]
     /\ ~call.args[4]
     /\ Has("dvc checkout .")
     /\ ~Failed("dvc pull")
     /\ ~Failed("dvc checkout .")
     /\ call.args[1] \in DOMAIN taken
     /\ TrackedIn(call.args[1], DataFile))
    => fs[DataFile] = taken[call.args[1]][DataFile]

\* a restore_snapshot call for a version that has no metadata file has ended
RestoredUnknown ==
    /\ call.op = "restore_snapshot"
    /\ call.args[1] \notin DOMAIN snapshots

\* it returned False, raised nothing and ran no command
RefusedUnknown ==
    RestoredUnknown =>
        /\ ~ret
        /\ raised = "none"
        /\ trace = <<RestoreEvent(call.args[1])>>

\* the call left the files, HEAD, the tags and the metadata as they were
UnknownLeftUnchanged ==
    (call = Idle /\ RestoredUnknown') => UNCHANGED <<fs, head, tags, snapshots>>

\* C12: restore_snapshot for a version with no snapshot metadata returns
\* False without raising, runs no git checkout, dvc pull or dvc checkout, and
\* leaves the workspace unchanged.
C12_UnknownVersionRefused == []RefusedUnknown /\ [][UnknownLeftUnchanged]_vars

\* such a call, asked to restore code and data, has returned False
C12_Witness ==
    /\ RestoredUnknown
    /\ call.args[2]
    /\ call.args[4]
    /\ ~ret

\* the versions whose metadata the returned list holds
ListedVersions == {listed[i].version : i \in DOMAIN listed}

\* C13: list_snapshots raises nothing; the list it returns is empty when the
\* git tag listing failed, and otherwise holds the metadata of exactly the
\* versions that have a git tag and a metadata file, among them every version
\* for which create_snapshot has completed.
C13_CompletedSnapshotsListed ==
    call.op = "list_snapshots" =>
        /\ raised = "none"
        /\ IF Failed("git tag -l")
           THEN listed = << >>
           ELSE /\ {listed[i] : i \in DOMAIN listed} = {snapshots[v] : v \in Listed}
                /\ DOMAIN taken \subseteq ListedVersions

NeedsFitted == {"predict", "predict_proba", "get_feature_importance", "save_model"}

\* a new model is unfitted, a train that returned left it fitted, and a call
\* that needs a fitted model raised RuntimeError on an unfitted one
FittedByTrainOnly ==
    /\ call.op = "RandomForestModel" => ~rf.is_fitted
    /\ (call.op = "train" /\ raised = "none") => rf.is_fitted
    /\ (call.op \in NeedsFitted /\ ~rf.is_fitted) => raised = "RuntimeError"

\* no call on a model unfits it, and save_model on an unfitted model writes
\* no file
StaysFitted ==
    /\ (rf.is_fitted /\ call'.op # "RandomForestModel") => rf'.is_fitted
    /\ (call = Idle /\ call'.op = "save_model" /\ ~rf.is_fitted)
         => model_files' = model_files

\* C14: a model is unfitted when created and fitted after train, and no call
\* (set_params included) unfits it; while it is unfitted, predict,
\* predict_proba, get_feature_importance and save_model raise RuntimeError,
\* and save_model writes no model file.
C14_FittedOnlyByTrain == []FittedByTrainOnly /\ [][StaysFitted]_vars

\* set_params has changed the parameters of a fitted model
C14_Witness ==
    /\ call.op = "set_params"
    /\ rf.is_fitted
    /\ raised = "none"
    /\ rf.params # DefaultParams

\* C15: get_current_version raises nothing and the record it returns holds a
\* git_commit entry.
C15_VersionHasGitCommit ==
    call.op = "get_current_version" =>
        /\ raised = "none"
        /\ version_info.git_commit # MISSING

\* C16: verify_recovery returns True only when the affected file has been
\* restored: after a recovery that ended with status 'failed', a file that
\* does not hold its uncorrupted content does not pass verification.
C16_CorruptedFailsVerification ==
    (/\ call.op = "verify_recovery"
     /\ result.status = "failed"
     /\ fs[call.args[1]] # ORIGINAL)
    => ~ret

\* the segments joined by dots
RECURSIVE Join(_)
Join(segments) ==
    IF Len(segments) = 1 THEN segments[1]
    ELSE segments[1] \o <<".">> \o Join(Tail(segments))

\* segments are the dot-separated segments of key
IsPathOf(segments, key) ==
    /\ Len(segments) >= 1
    /\ \A i \in DOMAIN segments : \A j \in DOMAIN segments[i] : segments[i][j] # "."
    /\ Join(segments) = key

\* what is stored at the nested path: NotThere when a segment is missing or
\* an intermediate value is no mapping
NotThere == [kind |-> "absent"]
RECURSIVE ValueAt(_, _)
ValueAt(stored, segments) ==
    IF segments = << >> THEN stored
    ELSE IF stored.kind # "dict" THEN NotThere
    ELSE IF Head(segments) \notin DOMAIN stored.items THEN NotThere
    ELSE ValueAt(stored.items[Head(segments)], Tail(segments))

\* C17: ConfigManager.get(key, default) raises nothing; it returns the value
\* stored at the nested path the dot-separated key names, and the default
\* exactly when a segment is missing, an intermediate value is no mapping or
\* the stored value is None.
C17_GetReturnsNestedValue ==
    call.op = "get" =>
        /\ raised = "none"
        /\ IsPathOf(split(call.args[1]), call.args[1])
        /\ value = IF ValueAt(config, split(call.args[1])) \in {NotThere, PyNone}
                   THEN call.args[2]
                   ELSE ValueAt(config, split(call.args[1]))

\* a falsy value stored two levels deep has been returned, not the default
C17_Witness ==
    /\ call.op = "get"
    /\ Len(split(call.args[1])) = 2
    /\ call.args[2] # PyNone
    /\ value = Scalar(0)

\* C18: whatever simulations and recoveries came before on the file, a
\* recovery that reports 'restored_from_backup' leaves the affected file with
\* its last uncorrupted content.
C18_BackupHoldsUncorrupted ==
    (/\ call.op = "recover_from_incident"
     /\ result.status = "success"
     /\ result.actions_taken = <<"restored_from_backup">>)
    => fs[PathOf(call.args[1].affected_file)] = ORIGINAL

\* the result reports the exception: status 'failed', its text in 'error'
Reports(exception) ==
    /\ result.status = "failed"
    /\ result.error = exception
    /\ result.end_time = "set"

FileIncidents == {"data_corruption", "model_degradation"}

====
